---- MODULE Spec2Model ----
(***************************************************************************)
(* A model of wayland_helper.c: the helper process that sits between a     *)
(* rendering client (control socket, binary IPC) and a Wayland compositor  *)
(* (zwlr_layer_shell_v1).  The model follows main()'s event loop step by   *)
(* step; the frame-callback and layer-surface listeners and every IPC      *)
(* handler are one action each.                                            *)
(***************************************************************************)
EXTENDS Integers, Sequences, FiniteSets, TLC

(* ---- bounds of the model ---------------------------------------------- *)
\* what the client does with the socket over its lifetime: the messages it
\* sends, and closing it
MaxClientMsgs == 3
\* layer-surface events (configure, closed) the compositor sends; a configure
\* carries as serial its position among them
MaxLayerEvents == 2
\* messages written to the socket and not yet read by the helper
MaxInbox == 1
\* largest frame sequence number a client puts in FRAME_READY
MaxSeq == 1
\* largest width and largest height the compositor or the client names
MaxW == 2
MaxH == 1
\* largest anchor bitmask of a CONFIGURE given to set_size: the four edge bits
\* and one bit above them
MaxAnchor == 31
\* wl_pointer events in one wl_display_dispatch_pending
MaxPtrEvents == 3

(* ---- IPC protocol constants (wayland_helper.c 45-54) ------------------ *)
MAGIC == 1447645764
MSG_CONFIGURE == 1
MSG_CFG_ACK == 2
MSG_FRAME_READY == 3
MSG_FRAME_DONE == 4
MSG_PTR_EVENT == 5
MSG_RESIZE == 7
MSG_SHUTDOWN == 8
MSG_ERROR == 9
\* sizeof(ConfigFixed) + 8: the shortest CONFIGURE payload accepted
CONFIG_MIN_LEN == 48
\* sizeof(ConfigFixed)
CONFIG_FIXED_LEN == 40
\* the longest namespace and path handle_configure_msg copies
NS_MAX == 255
SHM_PATH_MAX == 511
\* the pointer event types of a PTR_EVENT payload
PTR_ENTER == 0
PTR_LEAVE == 1
PTR_MOTION == 2
PTR_BUTTON == 3
\* the significand of a C float, in bits
FLOAT_MANT_DIG == 24
\* a header magic that is not MAGIC
NOT_MAGIC == MAGIC + 1

(* ---- zwlr_layer_surface_v1 anchor bits, used at lines 615-622 ------------ *)
ANCHOR_TOP == 1
ANCHOR_BOTTOM == 2
ANCHOR_LEFT == 4
ANCHOR_RIGHT == 8

VARIABLES
    pc,          \* where main() is: start, top, poll, dispatch, sock, cfg2, exit, crashed
    state,       \* the static struct `state`
    queue,       \* Wayland events read from the display fd and not yet dispatched
    ret,         \* where control returns when the queue has been dispatched
    revents,     \* what poll() reported: [wl, sock]
    wire,        \* Wayland events the compositor has sent and the helper has not read
    inbox,       \* client messages written to the socket and not yet read
    peer_closed, \* the client has closed its end of the control socket
    ipc,         \* history: every header the helper read (rx) and every message it wrote (tx)
    callbacks,   \* wl_callback objects created by wl_surface_frame and not yet destroyed
    fdt,         \* the process's descriptor table: fd -> who opened it
    closes,      \* history: the owner of every descriptor the helper closed
    exit_code,   \* main()'s return value, -1 while running
    fatal,       \* history: the fatal error that made the helper leave, "" if none
    error_tries, \* history: number of calls of send_error
    nsent,       \* number of things the client has done with the socket
    nserial,     \* layer-surface events the compositor has sent; the last serial
    closed_sent, \* the compositor has sent the layer-surface closed event
    surfaces,    \* history: number of wl_surface objects the helper has created
    reader_count, \* libwayland's count of prepared reads of the display
    lifecycle,   \* history: every create, destroy, mmap and munmap, in call order
    adverts,     \* the globals the compositor advertises, in its order
    cfg,         \* the anchor, width and height of a ConfigFixed given to set_size
    req,         \* the size passed to zwlr_layer_surface_v1_set_size for cfg, << >> before
    requests,    \* history: ack_configure, attach, damage, frame and commit requests, in call order
    pointer_events, \* history: the wl_pointer events the pointer listeners were called with
    payload,     \* a CONFIGURE payload given to the length checks: len, ns_len, shm_len
    reads,       \* what the length checks did with payload, << >> before
    g_cursor_x,  \* the static g_cursor_x, a float in units of 1/256
    g_cursor_y   \* the static g_cursor_y

vars == << pc, state, queue, ret, revents, wire, inbox, peer_closed, ipc,
           callbacks, fdt, closes, exit_code, fatal, error_tries, nsent,
           nserial, closed_sent, surfaces, reader_count, lifecycle, adverts,
           cfg, req, requests, pointer_events, payload, reads,
           g_cursor_x, g_cursor_y >>

(* ---- values ------------------------------------------------------------ *)
Widths == 0 .. MaxW
\* the compositor always names a height; the zero ("keep") axis is the width
Heights == 1 .. MaxH
Seqs == (0 - 1) .. MaxSeq

\* One IPC message, as a header plus the payload fields the helper looks at.
Msg(dir, magic, type, len, seq, w, h, code) ==
    [dir |-> dir, magic |-> magic, type |-> type, len |-> len, seq |-> seq,
     width |-> w, height |-> h, code |-> code]

\* A Wayland event.
Event(ev, serial, w, h) == [ev |-> ev, serial |-> serial, width |-> w, height |-> h]

\* What a client can write to the socket.
ClientMessages ==
    { Msg("rx", MAGIC, MSG_CONFIGURE, CONFIG_MIN_LEN + 8, 0, w, MaxH, 0) : w \in {0, MaxW} }
    \cup { Msg("rx", MAGIC, MSG_CONFIGURE, CONFIG_MIN_LEN - 8, 0, 0, 0, 0) }
    \cup { Msg("rx", MAGIC, MSG_FRAME_READY, 8, s, 0, 0, 0) : s \in Seqs }
    \cup { Msg("rx", MAGIC, MSG_FRAME_READY, 4, 0, 0, 0, 0) }
    \cup { Msg("rx", MAGIC, MSG_SHUTDOWN, 0, 0, 0, 0, 0),
           Msg("rx", MAGIC, MSG_CFG_ACK, 0, 0, 0, 0, 0),
           Msg("rx", NOT_MAGIC, MSG_FRAME_READY, 8, 1, 0, 0, 0) }

Last(s) == s[Len(s)]

RECURSIVE Count(_, _)
\* number of events of kind ev in a sequence of events
Count(s, ev) ==
    IF s = << >> THEN 0
    ELSE (IF Head(s).ev = ev THEN 1 ELSE 0) + Count(Tail(s), ev)

Min(S) == CHOOSE x \in S : \A y \in S : x <= y

\* open()/socket(): the lowest descriptor not in use
LowestFree(t) == Min({n \in 0 .. (Cardinality(DOMAIN t) + 1) : n \notin DOMAIN t})

\* t with descriptor fd added, opened by `who`
WithFd(t, fd, who) == [n \in DOMAIN t \cup {fd} |-> IF n = fd THEN who ELSE t[n]]

\* t without descriptor fd
WithoutFd(t, fd) == [n \in DOMAIN t \ {fd} |-> t[n]]

\* The client acts while the helper waits in poll(): the helper looks at the
\* socket only after poll() has reported it, so a message or a hang-up that
\* arrives at any other moment is seen as one arriving during the next poll().
ClientTurn == pc = "poll"

(* ---- initial state ----------------------------------------------------- *)
\* `state` is a static object: every field starts as zero (line 76-136).
InitState ==
    [ display |-> FALSE, registry |-> FALSE, seat |-> FALSE, output |-> FALSE,
      compositor |-> FALSE, shm |-> FALSE, layer_shell |-> FALSE,
      surface |-> 0, layer_surface |-> 0, shm_pool |-> FALSE, buf |-> FALSE,
      pixels |-> FALSE, frame_bytes |-> 0, total_bytes |-> 0, pool_len |-> 0,
      shm_fd |-> 0, sock_fd |-> 0, width |-> 0, height |-> 0,
      configured |-> FALSE, running |-> FALSE, frame_callback_pending |-> FALSE,
      resize_pending |-> FALSE, pending_width |-> 0, pending_height |-> 0,
      pending_serial |-> 0, configure_serial |-> 0, frame_seq |-> 0 ]

\* the interfaces registry_global knows
Globals == {"wl_compositor", "wl_shm", "zwlr_layer_shell_v1", "wl_output", "wl_seat"}

\* the three globals main() cannot do without (lines 791-793)
Required == {"wl_compositor", "wl_shm", "zwlr_layer_shell_v1"}

\* s without its entries x
Without(s, x) == SelectSeq(s, LAMBDA e : e # x)

\* one advertisement order of a compositor that offers everything
FullAdvert == << "wl_compositor", "wl_shm", "zwlr_layer_shell_v1", "wl_seat", "wl_output" >>

\* the advertisements of the sessions: everything, or one required global missing
SessionAdverts == {FullAdvert} \cup {Without(FullAdvert, g) : g \in Required}

\* no payload is being checked
\* A uint32_t is a pair << high, low >> of 16-bit halves.
Half == 65536

\* the uint32_t of a number below 2^16
Small(n) == << 0, n >>

\* a + b in uint32_t: the sum modulo 2^32
Add32(a, b) ==
    << (a[1] + b[1] + (a[2] + b[2]) \div Half) % Half, (a[2] + b[2]) % Half >>

\* the carry of a + b: 1 when the sum does not fit a uint32_t
Carry32(a, b) == (a[1] + b[1] + (a[2] + b[2]) \div Half) \div Half

\* a < b for two uint32_t
Less32(a, b) == a[1] < b[1] \/ (a[1] = b[1] /\ a[2] < b[2])

\* a < n ? a : n, for n below 2^16, as a number
Min32(a, n) == IF Less32(a, Small(n)) THEN a[2] ELSE n

NoPayload == [len |-> Small(0), ns_len |-> Small(0), shm_len |-> Small(0)]

\* The parent may start the helper with or without stdin open.
Init ==
    /\ pc = "start"
    /\ state = InitState
    /\ queue = << >>
    /\ ret = "sock"
    /\ revents = [wl |-> FALSE, sock |-> FALSE]
    /\ wire = << >>
    /\ inbox = << >>
    /\ peer_closed = FALSE
    /\ ipc = << >>
    /\ callbacks = 0
    /\ fdt \in { [n \in {0, 1, 2} |-> "parent"], [n \in {1, 2} |-> "parent"] }
    /\ closes = << >>
    /\ exit_code = 0 - 1
    /\ fatal = ""
    /\ error_tries = 0
    /\ nsent = 0
    /\ nserial = 0
    /\ closed_sent = FALSE
    /\ surfaces = 0
    /\ reader_count = 0
    /\ lifecycle = << >>
    /\ adverts \in SessionAdverts
    /\ cfg = [anchor |-> 0, width |-> 0, height |-> 0]
    /\ req = << >>
    /\ requests = << >>
    /\ pointer_events = << >>
    /\ payload = NoPayload
    /\ reads = << >>
    /\ g_cursor_x = 0
    /\ g_cursor_y = 0

(* ---- helpers of the C file --------------------------------------------- *)
\* write(2) on the control socket: it succeeds while the client holds its end
\* open; afterwards it fails with EPIPE or SIGPIPE ends the process (send_all).
SendOutcomes == IF peer_closed THEN {"epipe", "sigpipe"} ELSE {"ok"}

\* send_msg: the log after writing m with outcome r
send_msg(log, m, r) == IF r = "ok" THEN Append(log, m) ELSE log

\* send_error's message
ErrorMsg(code) == Msg("tx", MAGIC, MSG_ERROR, 8, 0, 0, 0, code)

\* the payload left as zeroes
FrameDoneBlank(st) == Msg("tx", MAGIC, MSG_FRAME_DONE, 8, 0, 0, 0, 0)

\* the payload frame_callback_done builds
FrameDoneMsg(st) == Msg("tx", MAGIC, MSG_FRAME_DONE, 8, st.frame_seq, 0, 0, 0)

\* the acknowledgement sent with apply_resize's message type
CfgAckAsResize(st) == Msg("tx", MAGIC, MSG_RESIZE, 8, 0, st.width, st.height, 0)

\* the payload handle_configure_msg acknowledges with
CfgAckMsg(st) == Msg("tx", MAGIC, MSG_CFG_ACK, 8, 0, st.width, st.height, 0)

\* the payload apply_resize notifies with
ResizeMsg(st) == Msg("tx", MAGIC, MSG_RESIZE, 8, 0, st.width, st.height, 0)

\* where a handler that ends in a send goes: SIGPIPE ends the process
AfterSend(r, next) == IF r = "sigpipe" THEN "crashed" ELSE next

\* an entry of `requests`: the request and its argument (a configure serial;
\* for attach 1 with a buffer, 0 with NULL; 0 otherwise)
Request(name, arg) == [req |-> name, arg |-> arg]

\* attach, damage_buffer, register_frame_callback, commit: the blank frame of
\* handle_configure_msg (lines 642-646) and apply_resize (lines 673-677)
BlankFrameRequests(st) ==
    << Request("attach", IF st.buf THEN 1 ELSE 0), Request("damage_buffer", 0),
       Request("frame", 0), Request("commit", 0) >>

\* handle_frame_ready's requests (lines 699-707): the frame request only when
\* no callback is pending
FrameReadyRequests(st) ==
    << Request("attach", IF st.buf THEN 1 ELSE 0), Request("damage_buffer", 0) >>
    \o (IF st.frame_callback_pending THEN << >> ELSE << Request("frame", 0) >>)
    \o << Request("commit", 0) >>

\* register_frame_callback: wl_surface_frame + add_listener, flag set
register_frame_callback(st) == [st EXCEPT !.frame_callback_pending = TRUE]

\* mmap of width*height*4 bytes: a length of 0 is EINVAL; otherwise it may
\* succeed, fail, or succeed over a file that is shorter than the mapping,
\* in which case the memset that follows raises SIGBUS.
MmapOutcomes(st) ==
    IF st.width * st.height * 4 = 0 THEN {"fail"} ELSE {"ok", "fail", "sigbus"}

\* libwayland's read lock: prepare_read adds a reader, cancel_read and
\* read_events each take one away
wl_display_prepare_read(n) == n + 1
wl_display_cancel_read(n) == n - 1
wl_display_read_events(n) == n - 1

\* an entry of `lifecycle`: the call, the kind of object, the calling function
Call(op, obj, by) == [op |-> op, obj |-> obj, by |-> by]

\* the entries of a conditional call
If(cond, op, obj, by) == IF cond THEN << Call(op, obj, by) >> ELSE << >>

\* the calls of setup_shm_buffers: the old mapping unmapped, the old buffer
\* and pool destroyed (lines 490-507), then the new mapping, pool and buffer
ShmCalls(st, o) ==
    LET by == "setup_shm_buffers"
    IN If(st.pixels, "munmap", "pixels", by)
       \o If(st.buf, "destroy", "wl_buffer", by)
       \o If(st.shm_pool, "destroy", "wl_shm_pool", by)
       \o If(o # "fail", "mmap", "pixels", by)
       \o If(o # "fail", "create", "wl_shm_pool", by)
       \o If(o # "fail", "create", "wl_buffer", by)

\* setup_shm_buffers: tear down the old binding, build the new one
setup_shm_buffers(st, o) ==
    LET frame_bytes == st.width * st.height * 4
        torn == [st EXCEPT !.pixels = FALSE, !.buf = FALSE, !.shm_pool = FALSE]
    IN IF o = "fail" THEN torn
       ELSE [torn EXCEPT !.pixels = TRUE, !.frame_bytes = frame_bytes,
                         !.total_bytes = frame_bytes, !.shm_pool = TRUE,
                         !.pool_len = frame_bytes, !.buf = TRUE]

Owner(t, fd) == IF fd \in DOMAIN t THEN t[fd] ELSE "none"

\* line 757 left out: state.shm_fd keeps the zero of static storage
static_shm_fd == InitState.shm_fd

\* line 757: the value main() gives state.shm_fd before anything can fail
main_shm_fd_init == 0 - 1

(* ---- main(): start-up (lines 745-804) ----------------------------------- *)
StartupOutcomes == {"usage", "no_xkb", "no_connect", "no_display", "connected"}

\* registry_global (lines 456-475): the field an advertised interface is bound to
registry_global(st, iface) ==
    CASE iface = "wl_compositor" -> [st EXCEPT !.compositor = TRUE]
      [] iface = "wl_shm" -> [st EXCEPT !.shm = TRUE]
      [] iface = "zwlr_layer_shell_v1" -> [st EXCEPT !.layer_shell = TRUE]
      [] iface = "wl_output" /\ ~st.output -> [st EXCEPT !.output = TRUE]
      [] iface = "wl_seat" -> [st EXCEPT !.seat = TRUE]
      [] OTHER -> st

\* registry_global calls wl_registry_bind for this advertisement
Binds(st, iface) == iface \in Globals /\ (iface = "wl_output" => ~st.output)

RECURSIVE Roundtrip(_, _, _)
\* the first wl_display_roundtrip (line 789): registry_global runs once per
\* advertised global, in the compositor's order; << state, lifecycle >> after it
Roundtrip(st, adv, lc) ==
    IF adv = << >> THEN << st, lc >>
    ELSE Roundtrip(registry_global(st, Head(adv)), Tail(adv),
                   lc \o If(Binds(st, Head(adv)), "create", Head(adv), "registry_global"))

\* what main() finds after the roundtrip (lines 791-793)
StartupResult(o, st) ==
    IF o # "connected" THEN o
    ELSE IF ~st.compositor THEN "no_compositor"
    ELSE IF ~st.shm THEN "no_shm"
    ELSE IF ~st.layer_shell THEN "no_layer_shell"
    ELSE "ok"

StartupError(o) ==
    CASE o = "no_display" -> 10
      [] o = "no_compositor" -> 11
      [] o = "no_shm" -> 12
      [] o = "no_layer_shell" -> 13
      [] OTHER -> 0

Startup ==
    /\ pc = "start"
    /\ \E o \in StartupOutcomes :
         LET has_sock == o \notin {"usage", "no_xkb"}
             has_disp == o = "connected"
             sock == LowestFree(fdt)
             t1 == IF has_sock THEN WithFd(fdt, sock, "sock") ELSE fdt
             t2 == IF has_disp THEN WithFd(t1, LowestFree(t1), "display") ELSE t1
             s1 == [state EXCEPT
                      !.shm_fd = IF o = "usage" THEN @ ELSE main_shm_fd_init,
                      !.sock_fd = IF has_sock THEN sock ELSE @,
                      !.display = has_disp,
                      !.registry = has_disp]
             lc1 == If(has_disp, "create", "wl_display", "main")
                    \o If(has_disp, "create", "wl_registry", "main")
             bound == IF has_disp THEN Roundtrip(s1, adverts, lc1) ELSE << s1, lc1 >>
             res == StartupResult(o, bound[1])
             code == StartupError(res)
         IN /\ state' = [bound[1] EXCEPT !.running = (res = "ok")]
            /\ lifecycle' = bound[2]
            /\ fdt' = t2
            /\ ipc' = IF code # 0 THEN Append(ipc, ErrorMsg(code)) ELSE ipc
            /\ error_tries' = IF code # 0 THEN 1 ELSE 0
            /\ fatal' = IF res = "ok" THEN "" ELSE res
            /\ pc' = IF res = "ok" THEN "top" ELSE "exit"
            /\ exit_code' = IF res = "ok" THEN exit_code ELSE 1
    /\ UNCHANGED << queue, ret, revents, wire, inbox, peer_closed, callbacks,
                    closes, nsent, nserial, closed_sent, surfaces,
                    reader_count, adverts, cfg, req, requests, pointer_events,
                    payload, reads, g_cursor_x, g_cursor_y >>

(* ---- main(): cleanup (lines 845-868) ------------------------------------ *)
\* the descriptors cleanup closes, in order: state.shm_fd when it is >= 0,
\* the display's (wl_display_disconnect), state.sock_fd
CleanupCloses(st, t) ==
    LET c1 == IF st.shm_fd >= 0 THEN << st.shm_fd >> ELSE << >>
        c2 == IF st.display
              THEN << CHOOSE n \in DOMAIN t : t[n] = "display" >> ELSE << >>
    IN c1 \o c2 \o << st.sock_fd >>

RECURSIVE CloseAll(_, _)
\* <<descriptor table, owners>> after closing the descriptors of fds in order
CloseAll(t, fds) ==
    IF fds = << >> THEN << t, << >> >>
    ELSE LET rest == CloseAll(WithoutFd(t, Head(fds)), Tail(fds))
         IN << rest[1], << Owner(t, Head(fds)) >> \o rest[2] >>

\* the Wayland objects and the mapping cleanup releases, in its order
\* (lines 847-861)
CleanupCalls(st) ==
    LET by == "main"
    IN If(st.pixels, "munmap", "pixels", by)
       \o If(st.buf, "destroy", "wl_buffer", by)
       \o If(st.shm_pool, "destroy", "wl_shm_pool", by)
       \o If(st.layer_surface # 0, "destroy", "zwlr_layer_surface_v1", by)
       \o If(st.surface # 0, "destroy", "wl_surface", by)
       \o If(st.seat, "destroy", "wl_seat", by)
       \o If(st.layer_shell, "destroy", "zwlr_layer_shell_v1", by)
       \o If(st.shm, "destroy", "wl_shm", by)
       \o If(st.compositor, "destroy", "wl_compositor", by)
       \o If(st.output, "destroy", "wl_output", by)
       \o If(st.registry, "destroy", "wl_registry", by)
       \o If(st.display, "destroy", "wl_display", by)

\* the code after the loop, run by whatever leaves the loop (break, or the
\* loop condition): st and t are the state and the descriptor table it finds
cleanup(st, t, lc) ==
    /\ LET done == CloseAll(t, CleanupCloses(st, t))
       IN /\ fdt' = done[1]
          /\ closes' = closes \o done[2]
    /\ lifecycle' = lc \o CleanupCalls(st)
    /\ pc' = "exit"
    /\ exit_code' = 0

\* where a step that may leave the loop goes next
Continue(p, st, t, lc) ==
    IF p = "cleanup" THEN cleanup(st, t, lc)
    ELSE pc' = p /\ fdt' = t /\ lifecycle' = lc /\ UNCHANGED << closes, exit_code >>

(* ---- main(): the event loop (lines 806-843) ----------------------------- *)
\* while (state.running) is false: leave the loop
main_loop_exit ==
    /\ pc = "top"
    /\ ~state.running
    /\ cleanup(state, fdt, lifecycle)
    /\ UNCHANGED << state, queue, ret, revents, wire, inbox, peer_closed, ipc,
                    callbacks, fatal, error_tries, nsent, nserial, closed_sent,
                    surfaces, reader_count, adverts, cfg, req, requests,
                    pointer_events, payload, reads, g_cursor_x, g_cursor_y >>

\* no resize pending: prepare_read succeeds at once, because every dispatch
\* (dispatch_pending, roundtrip) leaves the event queue empty
main_loop_enter ==
    /\ pc = "top"
    /\ state.running
    /\ ~state.resize_pending
    /\ queue = << >>
    /\ reader_count' = wl_display_prepare_read(reader_count)
    /\ pc' = "poll"
    /\ UNCHANGED << state, queue, ret, revents, wire, inbox, peer_closed, ipc,
                    callbacks, fdt, closes, exit_code, fatal, error_tries,
                    nsent, nserial, closed_sent, surfaces, lifecycle, adverts,
                    cfg, req, requests, pointer_events, payload, reads,
                    g_cursor_x, g_cursor_y >>

\* apply_resize (lines 656-686), called at the top of the loop (808-809)
apply_resize ==
    /\ pc = "top"
    /\ state.running
    /\ state.resize_pending
    /\ LET s1 == [state EXCEPT !.width = state.pending_width,
                               !.height = state.pending_height,
                               !.resize_pending = FALSE]
       IN \E o \in MmapOutcomes(s1), r \in SendOutcomes :
            LET s2 == setup_shm_buffers(s1, o)
            IN /\ lifecycle' = lifecycle \o ShmCalls(s1, o)
               /\ requests' = requests
                     \o << Request("ack_configure", state.pending_serial) >>
                     \o (IF o = "ok" THEN BlankFrameRequests(s2) ELSE << >>)
               /\ \/ /\ o = "fail"
                     /\ state' = [s2 EXCEPT !.running = FALSE]
                     /\ pc' = "poll"
                     /\ fatal' = "resize_mmap"
                     /\ UNCHANGED << ipc, callbacks >>
                  \/ /\ o = "sigbus"
                     /\ state' = s2
                     /\ pc' = "crashed"
                     /\ UNCHANGED << ipc, callbacks, fatal >>
                  \/ /\ o = "ok"
                     /\ state' = register_frame_callback(s2)
                     /\ callbacks' = callbacks + 1
                     /\ ipc' = send_msg(ipc, ResizeMsg(s2), r)
                     /\ pc' = AfterSend(r, "poll")
                     /\ UNCHANGED fatal
    \* the loop body goes on to wl_display_prepare_read (lines 812-813)
    /\ reader_count' = IF pc' = "poll" THEN wl_display_prepare_read(reader_count)
                       ELSE reader_count
    /\ UNCHANGED << queue, ret, revents, wire, inbox, peer_closed, fdt, closes,
                    exit_code, error_tries, nsent, nserial, closed_sent,
                    surfaces, adverts, cfg, req, pointer_events, payload,
                    reads, g_cursor_x, g_cursor_y >>

\* poll() interrupted by a signal: cancel_read, continue
poll_eintr ==
    /\ pc = "poll"
    /\ reader_count' = wl_display_cancel_read(reader_count)
    /\ pc' = "top"
    /\ UNCHANGED << state, queue, ret, revents, wire, inbox, peer_closed, ipc,
                    callbacks, fdt, closes, exit_code, fatal, error_tries,
                    nsent, nserial, closed_sent, surfaces, lifecycle, adverts,
                    cfg, req, requests, pointer_events, payload, reads,
                    g_cursor_x, g_cursor_y >>

\* poll() failed otherwise: cancel_read, break
poll_error ==
    /\ pc = "poll"
    /\ reader_count' = wl_display_cancel_read(reader_count)
    /\ cleanup(state, fdt, lifecycle)
    /\ fatal' = "poll"
    /\ UNCHANGED << state, queue, ret, revents, wire, inbox, peer_closed, ipc,
                    callbacks, error_tries, nsent, nserial, closed_sent,
                    surfaces, adverts, cfg, req, requests, pointer_events,
                    payload, reads, g_cursor_x, g_cursor_y >>

\* the timeout branch going back to the loop head with the read still prepared
poll_timeout_no_cancel ==
    /\ pc = "poll"
    /\ wire = << >>
    /\ inbox = << >>
    /\ ~peer_closed
    /\ reader_count' = reader_count
    /\ pc' = "top"
    /\ UNCHANGED << state, queue, ret, revents, wire, inbox, peer_closed, ipc,
                    callbacks, fdt, closes, exit_code, fatal, error_tries,
                    nsent, nserial, closed_sent, surfaces, lifecycle, adverts,
                    cfg, req, requests, pointer_events, payload, reads,
                    g_cursor_x, g_cursor_y >>

\* poll() returned 0 after 5 s: nothing was readable; cancel_read, continue
poll_timeout ==
    /\ pc = "poll"
    /\ wire = << >>
    /\ inbox = << >>
    /\ ~peer_closed
    /\ reader_count' = wl_display_cancel_read(reader_count)
    /\ pc' = "top"
    /\ UNCHANGED << state, queue, ret, revents, wire, inbox, peer_closed, ipc,
                    callbacks, fdt, closes, exit_code, fatal, error_tries,
                    nsent, nserial, closed_sent, surfaces, lifecycle, adverts,
                    cfg, req, requests, pointer_events, payload, reads,
                    g_cursor_x, g_cursor_y >>

\* poll() reports readable descriptors; lines 833-838: read_events moves what
\* the compositor sent into the queue, or the prepared read is cancelled
poll_ready ==
    /\ pc = "poll"
    /\ wire # << >> \/ inbox # << >> \/ peer_closed
    /\ revents' = [wl |-> wire # << >>, sock |-> inbox # << >> \/ peer_closed]
    /\ reader_count' = IF wire # << >> THEN wl_display_read_events(reader_count)
                       ELSE wl_display_cancel_read(reader_count)
    /\ queue' = wire
    /\ wire' = << >>
    /\ ret' = "sock"
    /\ pc' = IF wire # << >> THEN "dispatch" ELSE "sock"
    /\ UNCHANGED << state, inbox, peer_closed, ipc, callbacks, fdt, closes,
                    exit_code, fatal, error_tries, nsent, nserial, closed_sent,
                    surfaces, lifecycle, adverts, cfg, req, requests,
                    pointer_events, payload, reads, g_cursor_x, g_cursor_y >>

(* ---- Wayland listeners, run by dispatch_pending / roundtrip ------------- *)
\* what every listener does to the queue and to main()'s position
Dispatched ==
    /\ queue' = Tail(queue)
    /\ pc' = IF Tail(queue) = << >> THEN ret ELSE "dispatch"

\* frame_callback_done (lines 186-195)
frame_callback_done ==
    /\ pc = "dispatch"
    /\ queue # << >>
    /\ Head(queue).ev = "done"
    /\ callbacks' = callbacks - 1
    /\ state' = [state EXCEPT !.frame_callback_pending = FALSE]
    /\ \E r \in SendOutcomes :
         /\ ipc' = send_msg(ipc, FrameDoneMsg(state), r)
         /\ queue' = Tail(queue)
         /\ pc' = AfterSend(r, IF Tail(queue) = << >> THEN ret ELSE "dispatch")
    /\ UNCHANGED << ret, revents, wire, inbox, peer_closed, fdt, closes,
                    exit_code, fatal, error_tries, nsent, nserial, closed_sent,
                    surfaces, reader_count, lifecycle, adverts, cfg, req,
                    requests, pointer_events, payload, reads,
                    g_cursor_x, g_cursor_y >>

\* layer_surface_configure acking a configure whose dimensions differ at once
layer_surface_configure_ack_at_once ==
    /\ pc = "dispatch"
    /\ queue # << >>
    /\ Head(queue).ev = "configure"
    /\ LET e == Head(queue)
           new_w == IF e.width > 0 THEN e.width ELSE state.width
           new_h == IF e.height > 0 THEN e.height ELSE state.height
       IN \/ /\ ~state.configured
             /\ state' = [state EXCEPT !.width = new_w, !.height = new_h,
                                       !.configure_serial = e.serial,
                                       !.configured = TRUE]
             /\ UNCHANGED requests
          \/ /\ state.configured
             /\ new_w # state.width \/ new_h # state.height
             /\ state' = [state EXCEPT !.pending_width = new_w,
                                       !.pending_height = new_h,
                                       !.pending_serial = e.serial,
                                       !.resize_pending = TRUE]
             /\ requests' = Append(requests,
                                   Request("ack_configure", e.serial))
          \/ /\ state.configured
             /\ new_w = state.width
             /\ new_h = state.height
             /\ state' = state
             /\ requests' = requests \o << Request("ack_configure", e.serial),
                                           Request("commit", 0) >>
    /\ Dispatched
    /\ UNCHANGED << ret, revents, wire, inbox, peer_closed, ipc, callbacks,
                    fdt, closes, exit_code, fatal, error_tries, nsent, nserial,
                    closed_sent, surfaces, reader_count, lifecycle, adverts,
                    cfg, req, pointer_events, payload, reads,
                    g_cursor_x, g_cursor_y >>

\* layer_surface_configure (lines 210-241)
layer_surface_configure ==
    /\ pc = "dispatch"
    /\ queue # << >>
    /\ Head(queue).ev = "configure"
    /\ LET e == Head(queue)
           new_w == IF e.width > 0 THEN e.width ELSE state.width
           new_h == IF e.height > 0 THEN e.height ELSE state.height
       IN \/ /\ ~state.configured
             /\ state' = [state EXCEPT !.width = new_w, !.height = new_h,
                                       !.configure_serial = e.serial,
                                       !.configured = TRUE]
             /\ UNCHANGED requests
          \/ /\ state.configured
             /\ new_w # state.width \/ new_h # state.height
             /\ state' = [state EXCEPT !.pending_width = new_w,
                                       !.pending_height = new_h,
                                       !.pending_serial = e.serial,
                                       !.resize_pending = TRUE]
             /\ UNCHANGED requests
          \/ /\ state.configured
             /\ new_w = state.width
             /\ new_h = state.height
             /\ state' = state
             /\ requests' = requests \o << Request("ack_configure", e.serial),
                                           Request("commit", 0) >>
    /\ Dispatched
    /\ UNCHANGED << ret, revents, wire, inbox, peer_closed, ipc, callbacks,
                    fdt, closes, exit_code, fatal, error_tries, nsent, nserial,
                    closed_sent, surfaces, reader_count, lifecycle, adverts,
                    cfg, req, pointer_events, payload, reads,
                    g_cursor_x, g_cursor_y >>

\* layer_surface_closed (lines 243-247)
layer_surface_closed ==
    /\ pc = "dispatch"
    /\ queue # << >>
    /\ Head(queue).ev = "closed"
    /\ state' = [state EXCEPT !.running = FALSE]
    /\ Dispatched
    /\ UNCHANGED << ret, revents, wire, inbox, peer_closed, ipc, callbacks,
                    fdt, closes, exit_code, fatal, error_tries, nsent, nserial,
                    closed_sent, surfaces, reader_count, lifecycle, adverts,
                    cfg, req, requests, pointer_events, payload, reads,
                    g_cursor_x, g_cursor_y >>

(* ---- dispatch_jvm_message (lines 713-742), called at lines 840-842 ------ *)
\* the control socket was not reported readable: next iteration
no_jvm_message ==
    /\ pc = "sock"
    /\ ~revents.sock
    /\ pc' = "top"
    /\ UNCHANGED << state, queue, ret, revents, wire, inbox, peer_closed, ipc,
                    callbacks, fdt, closes, exit_code, fatal, error_tries,
                    nsent, nserial, closed_sent, surfaces, reader_count,
                    lifecycle, adverts, cfg, req, requests, pointer_events,
                    payload, reads, g_cursor_x, g_cursor_y >>

\* recv_all of the header fails (end of file): return false, break
recv_failed ==
    /\ pc = "sock"
    /\ revents.sock
    /\ inbox = << >>
    /\ cleanup(state, fdt, lifecycle)
    /\ fatal' = "socket_read"
    /\ UNCHANGED << state, queue, ret, revents, wire, inbox, peer_closed, ipc,
                    callbacks, error_tries, nsent, nserial, closed_sent,
                    surfaces, reader_count, adverts, cfg, req, requests,
                    pointer_events, payload, reads, g_cursor_x, g_cursor_y >>

\* a header has been read: it is the next message of the inbox
HeaderRead ==
    /\ pc = "sock"
    /\ revents.sock
    /\ inbox # << >>
    /\ inbox' = Tail(inbox)

\* the bad header logged and skipped like an unknown type, the loop going on
bad_magic_skipped ==
    /\ HeaderRead
    /\ Head(inbox).magic # MAGIC
    /\ ipc' = Append(ipc, Head(inbox))
    /\ pc' = "top"
    /\ UNCHANGED << state, queue, ret, revents, wire, peer_closed, callbacks,
                    fdt, closes, exit_code, fatal, error_tries, nsent, nserial,
                    closed_sent, surfaces, reader_count, lifecycle, adverts,
                    cfg, req, requests, pointer_events, payload, reads,
                    g_cursor_x, g_cursor_y >>

\* hdr.magic != MAGIC: return false, break (lines 716-719)
bad_magic ==
    /\ HeaderRead
    /\ Head(inbox).magic # MAGIC
    /\ ipc' = Append(ipc, Head(inbox))
    /\ cleanup(state, fdt, lifecycle)
    /\ fatal' = "bad_magic"
    /\ UNCHANGED << state, queue, ret, revents, wire, peer_closed, callbacks,
                    error_tries, nsent, nserial, closed_sent, surfaces,
                    reader_count, adverts, cfg, req, requests, pointer_events,
                    payload, reads, g_cursor_x, g_cursor_y >>

\* SHUTDOWN logged, state.running left as it is
shutdown_msg_ignored ==
    /\ HeaderRead
    /\ Head(inbox).magic = MAGIC
    /\ Head(inbox).type = MSG_SHUTDOWN
    /\ ipc' = Append(ipc, Head(inbox))
    /\ pc' = "top"
    /\ UNCHANGED << state, queue, ret, revents, wire, peer_closed, callbacks,
                    fdt, closes, exit_code, fatal, error_tries, nsent, nserial,
                    closed_sent, surfaces, reader_count, lifecycle, adverts,
                    cfg, req, requests, pointer_events, payload, reads,
                    g_cursor_x, g_cursor_y >>

\* case MSG_SHUTDOWN (lines 732-735)
shutdown_msg ==
    /\ HeaderRead
    /\ Head(inbox).magic = MAGIC
    /\ Head(inbox).type = MSG_SHUTDOWN
    /\ ipc' = Append(ipc, Head(inbox))
    /\ state' = [state EXCEPT !.running = FALSE]
    /\ pc' = "top"
    /\ UNCHANGED << queue, ret, revents, wire, peer_closed, callbacks, fdt,
                    closes, exit_code, fatal, error_tries, nsent, nserial,
                    closed_sent, surfaces, reader_count, lifecycle, adverts,
                    cfg, req, requests, pointer_events, payload, reads,
                    g_cursor_x, g_cursor_y >>

\* the default case returning false: an unknown type ends the loop
unknown_msg_fatal ==
    /\ HeaderRead
    /\ Head(inbox).magic = MAGIC
    /\ Head(inbox).type \notin {MSG_CONFIGURE, MSG_FRAME_READY, MSG_SHUTDOWN}
    /\ ipc' = Append(ipc, Head(inbox))
    /\ cleanup(state, fdt, lifecycle)
    /\ UNCHANGED << state, queue, ret, revents, wire, peer_closed, callbacks,
                    fatal, error_tries, nsent, nserial, closed_sent, surfaces,
                    reader_count, adverts, cfg, req, requests, pointer_events,
                    payload, reads, g_cursor_x, g_cursor_y >>

\* default: an unknown type is logged and skipped (lines 736-738)
unknown_msg ==
    /\ HeaderRead
    /\ Head(inbox).magic = MAGIC
    /\ Head(inbox).type \notin {MSG_CONFIGURE, MSG_FRAME_READY, MSG_SHUTDOWN}
    /\ ipc' = Append(ipc, Head(inbox))
    /\ pc' = "top"
    /\ UNCHANGED << state, queue, ret, revents, wire, peer_closed, callbacks,
                    fdt, closes, exit_code, fatal, error_tries, nsent, nserial,
                    closed_sent, surfaces, reader_count, lifecycle, adverts,
                    cfg, req, requests, pointer_events, payload, reads,
                    g_cursor_x, g_cursor_y >>

\* memcpy(&state.frame_seq, payload, 8): with fewer than 8 payload bytes the
\* copy reads past the payload (a null pointer when len = 0): the process
\* faults, or frame_seq receives whatever bytes were there.
FrameSeqRead(m) ==
    IF m.len >= 8 THEN {[fault |-> FALSE, seq |-> m.seq]}
    ELSE {[fault |-> TRUE, seq |-> 0]} \cup {[fault |-> FALSE, seq |-> s] : s \in Seqs}

\* the copy forgotten: frame_seq keeps its old value
StaleSeq(st, read) == st.frame_seq

\* the frame_seq handle_frame_ready stores, given what its memcpy read
StoredSeq(st, read) == read

\* FRAME_DONE sent from the handler itself, without waiting for the callback
FrameReadyRepliesAtOnce(st) == << FrameDoneMsg(st) >>

\* what handle_frame_ready writes to the socket: nothing
FrameReadyReplies(st) == << >>

\* handle_frame_ready (lines 689-710)
handle_frame_ready ==
    /\ HeaderRead
    /\ Head(inbox).magic = MAGIC
    /\ Head(inbox).type = MSG_FRAME_READY
    /\ \E read \in FrameSeqRead(Head(inbox)), null \in {"segv", "ignored"} :
         LET m == Head(inbox)
             s1 == [state EXCEPT !.frame_seq = StoredSeq(state, read.seq)]
             rx == Append(ipc, [m EXCEPT !.seq = read.seq])
         IN \/ /\ read.fault
               /\ pc' = "crashed"
               /\ ipc' = Append(ipc, m)
               /\ UNCHANGED << state, callbacks, requests >>
            \/ \* state.surface is NULL: the libwayland calls dereference it
               /\ ~read.fault
               /\ state.surface = 0
               /\ IF null = "segv"
                  THEN pc' = "crashed" /\ state' = s1 /\ ipc' = rx
                  ELSE /\ pc' = "top"
                       /\ state' = register_frame_callback(s1)
                       /\ ipc' = rx \o FrameReadyReplies(s1)
               /\ UNCHANGED << callbacks, requests >>
            \/ /\ ~read.fault
               /\ state.surface # 0
               /\ ipc' = rx \o FrameReadyReplies(s1)
               /\ requests' = requests \o FrameReadyRequests(state)
               /\ IF state.frame_callback_pending
                  THEN state' = s1 /\ UNCHANGED callbacks
                  ELSE state' = register_frame_callback(s1)
                       /\ callbacks' = callbacks + 1
               /\ pc' = "top"
    /\ UNCHANGED << queue, ret, revents, wire, peer_closed, fdt, closes,
                    exit_code, fatal, error_tries, nsent, nserial, closed_sent,
                    surfaces, reader_count, lifecycle, adverts, cfg, req,
                    pointer_events, payload, reads, g_cursor_x, g_cursor_y >>

\* what the compositor answers to the first commit of a layer surface during
\* wl_display_roundtrip: nothing, a configure event with a fresh serial, or
\* the closed event of a compositor that refuses the surface
RoundtripAnswers ==
    {<< >>} \cup
    (IF nserial < MaxLayerEvents
     THEN {<< Event("configure", nserial + 1, w, h) >> : w \in Widths, h \in Heights}
     ELSE {}) \cup
    (IF nserial < MaxLayerEvents /\ ~closed_sent
     THEN {<< Event("closed", 0, 0, 0) >>}
     ELSE {})

\* handle_configure_msg up to wl_display_roundtrip (lines 555-626)
handle_configure_msg ==
    /\ HeaderRead
    /\ Head(inbox).magic = MAGIC
    /\ Head(inbox).type = MSG_CONFIGURE
    /\ \E o \in {"open_fail", "surface_fail", "layer_fail", "ok"},
          r \in SendOutcomes, answer \in RoundtripAnswers :
         LET m == Head(inbox)
             rx == Append(ipc, m)
             s1 == [state EXCEPT !.width = m.width, !.height = m.height]
             fd == LowestFree(fdt)
             s2 == [s1 EXCEPT !.shm_fd = fd]
             s3 == [s2 EXCEPT !.surface = surfaces + 1]
             s4 == [s3 EXCEPT !.layer_surface = surfaces + 1]
             opened == WithFd(fdt, fd, "shm")
             by == "handle_configure_msg"
             lc1 == lifecycle \o << Call("create", "wl_surface", by) >>
             lc2 == lc1 \o << Call("create", "zwlr_layer_surface_v1", by) >>
             Failed(st, t, code, why, lc) ==
                 /\ state' = st
                 /\ ipc' = send_msg(rx, ErrorMsg(code), r)
                 /\ error_tries' = error_tries + 1
                 /\ fatal' = why
                 /\ Continue(AfterSend(r, "cleanup"), st, t, lc)
                 /\ UNCHANGED << queue, ret, wire, nserial, closed_sent, requests >>
         IN \/ \* payload too short: return false, nothing is sent
               /\ m.len < CONFIG_MIN_LEN
               /\ ipc' = rx
               /\ cleanup(state, fdt, lifecycle)
               /\ fatal' = "bad_configure"
               /\ UNCHANGED << state, queue, ret, wire, nserial, surfaces,
                               error_tries, closed_sent, requests >>
            \/ /\ m.len >= CONFIG_MIN_LEN
               /\ o = "open_fail"
               /\ Failed([s1 EXCEPT !.shm_fd = 0 - 1], fdt, 1, "shm_open", lifecycle)
               /\ UNCHANGED surfaces
            \/ /\ m.len >= CONFIG_MIN_LEN
               /\ o = "surface_fail"
               /\ Failed([s2 EXCEPT !.surface = 0], opened, 2, "surface", lifecycle)
               /\ UNCHANGED surfaces
            \/ /\ m.len >= CONFIG_MIN_LEN
               /\ o = "layer_fail"
               /\ Failed([s3 EXCEPT !.layer_surface = 0], opened, 3, "layer_surface", lc1)
               /\ surfaces' = surfaces + 1
            \/ /\ m.len >= CONFIG_MIN_LEN
               /\ o = "ok"
               /\ state' = s4
               /\ fdt' = opened
               /\ lifecycle' = lc2
               /\ requests' = Append(requests, Request("commit", 0))
               /\ UNCHANGED << closes, exit_code >>
               /\ surfaces' = surfaces + 1
               /\ ipc' = rx
               /\ queue' = wire \o answer
               /\ wire' = << >>
               /\ nserial' = nserial + Len(answer)
               /\ closed_sent' = (closed_sent \/ Count(answer, "closed") > 0)
               /\ ret' = "cfg2"
               /\ pc' = IF wire \o answer = << >> THEN "cfg2" ELSE "dispatch"
               /\ UNCHANGED << fatal, error_tries >>
    /\ UNCHANGED << revents, peer_closed, callbacks, nsent, reader_count,
                    adverts, cfg, req, pointer_events, payload, reads,
                    g_cursor_x, g_cursor_y >>

\* handle_configure_msg after the roundtrip (lines 628-653)
handle_configure_msg_tail ==
    /\ pc = "cfg2"
    /\ \E o \in MmapOutcomes(state), r \in SendOutcomes :
         LET s1 == setup_shm_buffers(state, o)
             s2 == register_frame_callback(s1)
             lc1 == lifecycle \o ShmCalls(state, o)
             acked == Append(requests,
                             Request("ack_configure", state.configure_serial))
         IN \/ /\ ~state.configured
               /\ state' = state
               /\ ipc' = send_msg(ipc, ErrorMsg(4), r)
               /\ error_tries' = error_tries + 1
               /\ fatal' = "no_configure"
               /\ Continue(AfterSend(r, "cleanup"), state, fdt, lifecycle)
               /\ UNCHANGED << callbacks, requests >>
            \/ /\ state.configured
               /\ o = "fail"
               /\ state' = s1
               /\ ipc' = send_msg(ipc, ErrorMsg(5), r)
               /\ error_tries' = error_tries + 1
               /\ fatal' = "shm_buffers"
               /\ Continue(AfterSend(r, "cleanup"), s1, fdt, lc1)
               /\ requests' = acked
               /\ UNCHANGED callbacks
            \/ /\ state.configured
               /\ o = "sigbus"
               /\ state' = s1
               /\ lifecycle' = lc1
               /\ requests' = acked
               /\ pc' = "crashed"
               /\ UNCHANGED << ipc, error_tries, fatal, callbacks, fdt, closes,
                               exit_code >>
            \/ /\ state.configured
               /\ o = "ok"
               /\ state' = s2
               /\ callbacks' = callbacks + 1
               /\ requests' = acked \o BlankFrameRequests(s1)
               /\ ipc' = send_msg(ipc, CfgAckMsg(s2), r)
               /\ fatal' = IF r = "epipe" THEN "socket_write" ELSE fatal
               /\ Continue(AfterSend(r, IF r = "ok" THEN "top" ELSE "cleanup"),
                           s2, fdt, lc1)
               /\ UNCHANGED error_tries
    /\ UNCHANGED << queue, ret, revents, wire, inbox, peer_closed, nsent,
                    nserial, closed_sent, surfaces, reader_count, adverts, cfg,
                    req, pointer_events, payload, reads,
                    g_cursor_x, g_cursor_y >>

(* ---- the environment: client and compositor ----------------------------- *)
\* The compositor acts while the helper waits in poll(), and just before
\* handle_configure_msg runs, whose wl_display_roundtrip reads the display:
\* these are the only two places where the helper reads what it has sent.
CompositorTurn ==
    \/ pc = "poll"
    \/ /\ pc = "sock"
       /\ revents.sock
       /\ inbox # << >>
       /\ Head(inbox).magic = MAGIC
       /\ Head(inbox).type = MSG_CONFIGURE

ClientSend ==
    /\ ClientTurn
    /\ ~peer_closed
    /\ nsent < MaxClientMsgs
    /\ Len(inbox) < MaxInbox
    /\ \E m \in ClientMessages : inbox' = Append(inbox, m)
    /\ nsent' = nsent + 1
    /\ UNCHANGED << pc, state, queue, ret, revents, wire, peer_closed, ipc,
                    callbacks, fdt, closes, exit_code, fatal, error_tries,
                    nserial, closed_sent, surfaces, reader_count, lifecycle,
                    adverts, cfg, req, requests, pointer_events, payload,
                    reads, g_cursor_x, g_cursor_y >>

ClientClose ==
    /\ ClientTurn
    /\ ~peer_closed
    /\ nsent < MaxClientMsgs
    /\ peer_closed' = TRUE
    /\ nsent' = nsent + 1
    /\ UNCHANGED << pc, state, queue, ret, revents, wire, inbox, ipc,
                    callbacks, fdt, closes, exit_code, fatal, error_tries,
                    nserial, closed_sent, surfaces, reader_count, lifecycle,
                    adverts, cfg, req, requests, pointer_events, payload,
                    reads, g_cursor_x, g_cursor_y >>

\* a configure event for the layer surface, with a fresh serial
CompositorConfigure ==
    /\ CompositorTurn
    /\ state.layer_surface # 0
    /\ nserial < MaxLayerEvents
    /\ \E w \in Widths, h \in Heights :
         wire' = Append(wire, Event("configure", nserial + 1, w, h))
    /\ nserial' = nserial + 1
    /\ UNCHANGED << pc, state, queue, ret, revents, inbox, peer_closed, ipc,
                    callbacks, fdt, closes, exit_code, fatal, error_tries,
                    nsent, closed_sent, surfaces, reader_count, lifecycle,
                    adverts, cfg, req, requests, pointer_events, payload,
                    reads, g_cursor_x, g_cursor_y >>

\* the done event of a frame callback that has not been fired yet
CompositorFrameDone ==
    /\ CompositorTurn
    /\ callbacks > Count(wire, "done") + Count(queue, "done")
    /\ wire' = Append(wire, Event("done", 0, 0, 0))
    /\ UNCHANGED << pc, state, queue, ret, revents, inbox, peer_closed, ipc,
                    callbacks, fdt, closes, exit_code, fatal, error_tries,
                    nsent, nserial, closed_sent, surfaces, reader_count,
                    lifecycle, adverts, cfg, req, requests, pointer_events,
                    payload, reads, g_cursor_x, g_cursor_y >>

\* the closed event of the layer surface
CompositorClosed ==
    /\ CompositorTurn
    /\ state.layer_surface # 0
    /\ ~closed_sent
    /\ nserial < MaxLayerEvents
    /\ wire' = Append(wire, Event("closed", 0, 0, 0))
    /\ closed_sent' = TRUE
    /\ nserial' = nserial + 1
    /\ UNCHANGED << pc, state, queue, ret, revents, inbox, peer_closed, ipc,
                    callbacks, fdt, closes, exit_code, fatal, error_tries,
                    nsent, surfaces, reader_count, lifecycle, adverts, cfg,
                    req, requests, pointer_events, payload, reads,
                    g_cursor_x, g_cursor_y >>

(* ---- the specification --------------------------------------------------- *)
Next ==
    \/ Startup
    \/ main_loop_exit
    \/ main_loop_enter
    \/ apply_resize
    \/ poll_eintr
    \/ poll_error
    \/ poll_timeout
    \/ poll_ready
    \/ frame_callback_done
    \/ layer_surface_configure
    \/ layer_surface_closed
    \/ no_jvm_message
    \/ recv_failed
    \/ bad_magic
    \/ shutdown_msg
    \/ unknown_msg
    \/ handle_frame_ready
    \/ handle_configure_msg
    \/ handle_configure_msg_tail
    \/ ClientSend
    \/ ClientClose
    \/ CompositorConfigure
    \/ CompositorFrameDone
    \/ CompositorClosed

Spec == Init /\ [][Next]_vars

\* every order in which a compositor can advertise the five globals
AllAdverts ==
    {a \in [1 .. Cardinality(Globals) -> Globals] :
        \A i, j \in DOMAIN a : i # j => a[i] # a[j]}

\* Sessions of a client that does one thing with the socket, under every
\* advertisement order.
InitAdvert ==
    /\ pc = "start"
    /\ state = InitState
    /\ queue = << >>
    /\ ret = "sock"
    /\ revents = [wl |-> FALSE, sock |-> FALSE]
    /\ wire = << >>
    /\ inbox = << >>
    /\ peer_closed = FALSE
    /\ ipc = << >>
    /\ callbacks = 0
    /\ fdt = [n \in {0, 1, 2} |-> "parent"]
    /\ closes = << >>
    /\ exit_code = 0 - 1
    /\ fatal = ""
    /\ error_tries = 0
    /\ nsent = MaxClientMsgs - 1
    /\ nserial = 0
    /\ closed_sent = FALSE
    /\ surfaces = 0
    /\ reader_count = 0
    /\ lifecycle = << >>
    /\ adverts \in AllAdverts
    /\ cfg = [anchor |-> 0, width |-> 0, height |-> 0]
    /\ req = << >>
    /\ requests = << >>
    /\ pointer_events = << >>
    /\ payload = NoPayload
    /\ reads = << >>
    /\ g_cursor_x = 0
    /\ g_cursor_y = 0

SpecAdvert == InitAdvert /\ [][Next]_vars

\* Sessions in which the compositor sends up to MaxLayerEvents + 1 events to
\* the layer surface (serials 0, 1, ...), with a client that does one thing.
InitResize ==
    /\ pc = "start"
    /\ state = InitState
    /\ queue = << >>
    /\ ret = "sock"
    /\ revents = [wl |-> FALSE, sock |-> FALSE]
    /\ wire = << >>
    /\ inbox = << >>
    /\ peer_closed = FALSE
    /\ ipc = << >>
    /\ callbacks = 0
    /\ fdt = [n \in {0, 1, 2} |-> "parent"]
    /\ closes = << >>
    /\ exit_code = 0 - 1
    /\ fatal = ""
    /\ error_tries = 0
    /\ nsent = MaxClientMsgs - 1
    /\ nserial = 0 - 1
    /\ closed_sent = FALSE
    /\ surfaces = 0
    /\ reader_count = 0
    /\ lifecycle = << >>
    /\ adverts = FullAdvert
    /\ cfg = [anchor |-> 0, width |-> 0, height |-> 0]
    /\ req = << >>
    /\ requests = << >>
    /\ pointer_events = << >>
    /\ payload = NoPayload
    /\ reads = << >>
    /\ g_cursor_x = 0
    /\ g_cursor_y = 0

SpecResize == InitResize /\ [][Next]_vars

(* ---- handle_configure_msg: the size it requests (lines 615-623) ---------- *)
RECURSIVE BitAnd(_, _)
\* a & b of two non-negative integers
BitAnd(a, b) ==
    IF a = 0 \/ b = 0 THEN 0
    ELSE (a % 2) * (b % 2) + 2 * BitAnd(a \div 2, b \div 2)

\* the width of a surface anchored to either side edge is left to the compositor
RequestedWidthAnyEdge(anchor, w) ==
    IF BitAnd(anchor, ANCHOR_LEFT + ANCHOR_RIGHT) # 0 THEN 0 ELSE w

\* req_w (lines 615-618)
RequestedWidth(anchor, w) ==
    IF BitAnd(anchor, ANCHOR_LEFT + ANCHOR_RIGHT) = ANCHOR_LEFT + ANCHOR_RIGHT
    THEN 0 ELSE w

\* req_h (lines 619-622)
RequestedHeight(anchor, h) ==
    IF BitAnd(anchor, ANCHOR_TOP + ANCHOR_BOTTOM) = ANCHOR_TOP + ANCHOR_BOTTOM
    THEN 0 ELSE h

\* the widths and heights a CONFIGURE names in the sessions of SpecSize
SizeDims == {0, 1, 30, 50}

\* A CONFIGURE that has passed the length checks and created its surfaces,
\* for every anchor bitmask and every width and height of SizeDims.
InitSize ==
    /\ pc = "sock"
    /\ state = InitState
    /\ queue = << >>
    /\ ret = "sock"
    /\ revents = [wl |-> FALSE, sock |-> FALSE]
    /\ wire = << >>
    /\ inbox = << >>
    /\ peer_closed = FALSE
    /\ ipc = << >>
    /\ callbacks = 0
    /\ fdt = [n \in {0, 1, 2} |-> "parent"]
    /\ closes = << >>
    /\ exit_code = 0 - 1
    /\ fatal = ""
    /\ error_tries = 0
    /\ nsent = 0
    /\ nserial = 0
    /\ closed_sent = FALSE
    /\ surfaces = 0
    /\ reader_count = 0
    /\ lifecycle = << >>
    /\ adverts = FullAdvert
    /\ cfg \in [anchor : 0 .. MaxAnchor, width : SizeDims, height : SizeDims]
    /\ req = << >>
    /\ requests = << >>
    /\ pointer_events = << >>
    /\ payload = NoPayload
    /\ reads = << >>
    /\ g_cursor_x = 0
    /\ g_cursor_y = 0

\* zwlr_layer_surface_v1_set_size(state.layer_surface, req_w, req_h) (line 623)
set_size ==
    /\ req = << >>
    /\ req' = << RequestedWidth(cfg.anchor, cfg.width),
                 RequestedHeight(cfg.anchor, cfg.height) >>
    /\ UNCHANGED << pc, state, queue, ret, revents, wire, inbox, peer_closed,
                    ipc, callbacks, fdt, closes, exit_code, fatal, error_tries,
                    nsent, nserial, closed_sent, surfaces, reader_count,
                    lifecycle, adverts, cfg, requests, pointer_events, payload,
                    reads, g_cursor_x, g_cursor_y >>

NextSize == set_size

SpecSize == InitSize /\ [][NextSize]_vars

(* ---- handle_configure_msg: the length checks (lines 555-575) ------------- *)
\* lengths of received payloads
PayloadLens == {Small(0), Small(47), Small(48), Small(52), Small(60), Small(700)}

\* values of a 32-bit length field: small ones, ones around the copy limits,
\* and ones near 2^32
LengthFields ==
    {Small(0), Small(4), Small(12), Small(256), Small(552),
     << Half - 1, Half - 48 >>, << Half - 1, Half - 4 >>, << Half - 1, Half - 1 >>,
     << Half \div 2, 0 >>}

\* an entry of `reads`: a memcpy of n bytes from payload + off, or the result
Copy(off, n) == [op |-> "copy", off |-> off, n |-> n]
Result(op, off) == [op |-> op, off |-> off, n |-> 0]

\* handle_configure_msg, lines 555-575, for a payload of p.len bytes whose
\* length fields read as p.ns_len and p.shm_len: the copies it makes from the
\* payload, then "reject" (return false) or "accept"
LengthChecks(p) ==
    LET off0 == Small(CONFIG_FIXED_LEN)
        off1 == Add32(off0, Small(4))
        copy1 == << Copy(Small(0), CONFIG_FIXED_LEN), Copy(off0, 4) >>
        off2 == Add32(off1, p.ns_len)
        copy2 == copy1 \o << Copy(off1, Min32(p.ns_len, NS_MAX)), Copy(off2, 4) >>
        off3 == Add32(off2, Small(4))
        copy3 == copy2 \o << Copy(off3, Min32(p.shm_len, SHM_PATH_MAX)) >>
    IN IF Less32(p.len, Small(CONFIG_MIN_LEN))
       THEN << Result("reject", Small(0)) >>
       ELSE IF Less32(p.len, Add32(Add32(off1, p.ns_len), Small(4)))
       THEN copy1 \o << Result("reject", off1) >>
       ELSE IF Less32(p.len, Add32(off3, p.shm_len))
       THEN copy2 \o << Result("reject", off3) >>
       ELSE copy3 \o << Result("accept", off3) >>

\* A CONFIGURE payload of every length and with every pair of length fields,
\* handed to handle_configure_msg.
InitParse ==
    /\ pc = "sock"
    /\ state = InitState
    /\ queue = << >>
    /\ ret = "sock"
    /\ revents = [wl |-> FALSE, sock |-> TRUE]
    /\ wire = << >>
    /\ inbox = << >>
    /\ peer_closed = FALSE
    /\ ipc = << >>
    /\ callbacks = 0
    /\ fdt = [n \in {0, 1, 2} |-> "parent"]
    /\ closes = << >>
    /\ exit_code = 0 - 1
    /\ fatal = ""
    /\ error_tries = 0
    /\ nsent = 0
    /\ nserial = 0
    /\ closed_sent = FALSE
    /\ surfaces = 0
    /\ reader_count = 0
    /\ lifecycle = << >>
    /\ adverts = FullAdvert
    /\ cfg = [anchor |-> 0, width |-> 0, height |-> 0]
    /\ req = << >>
    /\ requests = << >>
    /\ pointer_events = << >>
    /\ payload \in [len : PayloadLens, ns_len : LengthFields,
                    shm_len : LengthFields]
    /\ reads = << >>
    /\ g_cursor_x = 0
    /\ g_cursor_y = 0

\* handle_configure_msg up to line 575
handle_configure_msg_lengths ==
    /\ reads = << >>
    /\ reads' = LengthChecks(payload)
    /\ UNCHANGED << pc, state, queue, ret, revents, wire, inbox, peer_closed,
                    ipc, callbacks, fdt, closes, exit_code, fatal, error_tries,
                    nsent, nserial, closed_sent, surfaces, reader_count,
                    lifecycle, adverts, cfg, req, requests, pointer_events,
                    payload, g_cursor_x, g_cursor_y >>

NextParse == handle_configure_msg_lengths

SpecParse == InitParse /\ [][NextParse]_vars

(* ---- the pointer listeners (lines 255-318) -------------------------------- *)
\* a wl_pointer event; x and y are wl_fixed_t (24.8 fixed point)
PtrEvent(ev, x, y, button, bstate) ==
    [ev |-> ev, x |-> x, y |-> y, button |-> button, bstate |-> bstate]

\* wl_fixed_t positions: small ones, and ones with more than 24 significant bits
PtrCoords == {<< 256, 512 >>, << 16777217, 0 - 16777219 >>}

\* button codes and states
PtrButtons == {272}
PtrButtonStates == {0, 1}

PointerEvents ==
    {PtrEvent(ev, c[1], c[2], 0, 0) : ev \in {"enter", "motion"}, c \in PtrCoords}
    \cup {PtrEvent("button", 0, 0, b, st) : b \in PtrButtons, st \in PtrButtonStates}
    \cup {PtrEvent(ev, 0, 0, 0, 0) :
             ev \in {"leave", "axis", "frame", "axis_source", "axis_stop",
                     "axis_discrete"}}

\* wl_fixed_to_double: the value of a wl_fixed_t, exactly; the model counts
\* positions in units of 1/256, in which it is the integer itself
wl_fixed_to_double(f) == f

Abs(n) == IF n < 0 THEN 0 - n ELSE n

RECURSIVE BitLength(_)
BitLength(n) == IF n = 0 THEN 0 ELSE 1 + BitLength(n \div 2)

RECURSIVE Pow2(_)
Pow2(n) == IF n = 0 THEN 1 ELSE 2 * Pow2(n - 1)

\* (float)d: the nearest value with a significand of FLOAT_MANT_DIG bits,
\* ties to even
ToFloat(d) ==
    LET a == Abs(d)
        ulp == IF BitLength(a) > FLOAT_MANT_DIG
               THEN Pow2(BitLength(a) - FLOAT_MANT_DIG) ELSE 1
        q == a \div ulp
        rem == a % ulp
        up == 2 * rem > ulp \/ (2 * rem = ulp /\ q % 2 = 1)
        m == (IF up THEN q + 1 ELSE q) * ulp
    IN IF d < 0 THEN 0 - m ELSE m

\* the 16-byte PTR_EVENT of enter, leave and motion: type, x, y, btn = 0
PtrMsg16(type, fx, fy) ==
    [dir |-> "tx", magic |-> MAGIC, type |-> MSG_PTR_EVENT, len |-> 16,
     ptr |-> type, x |-> fx, y |-> fy, button |-> 0]

\* the 20-byte PTR_EVENT of a button: type, x, y, button, state
PtrMsg20(fx, fy, button, bstate) ==
    [dir |-> "tx", magic |-> MAGIC, type |-> MSG_PTR_EVENT, len |-> 20,
     ptr |-> PTR_BUTTON, x |-> fx, y |-> fy, button |-> button,
     bstate |-> bstate]

\* ptr_enter (lines 257-269)
ptr_enter ==
    /\ pc = "dispatch"
    /\ queue # << >>
    /\ Head(queue).ev = "enter"
    /\ pointer_events' = Append(pointer_events, Head(queue))
    /\ LET e == Head(queue)
           fx == ToFloat(wl_fixed_to_double(e.x))
           fy == ToFloat(wl_fixed_to_double(e.y))
       IN /\ g_cursor_x' = fx
          /\ g_cursor_y' = fy
          /\ \E r \in SendOutcomes :
               /\ ipc' = send_msg(ipc, PtrMsg16(PTR_ENTER, fx, fy), r)
               /\ queue' = Tail(queue)
               /\ pc' = AfterSend(r, IF Tail(queue) = << >> THEN ret
                                     ELSE "dispatch")
    /\ UNCHANGED << state, ret, revents, wire, inbox, peer_closed, callbacks,
                    fdt, closes, exit_code, fatal, error_tries, nsent, nserial,
                    closed_sent, surfaces, reader_count, lifecycle, adverts,
                    cfg, req, requests, payload, reads >>

\* ptr_leave forgetting the cached position
ptr_leave_forgets ==
    /\ pc = "dispatch"
    /\ queue # << >>
    /\ Head(queue).ev = "leave"
    /\ pointer_events' = Append(pointer_events, Head(queue))
    /\ g_cursor_x' = 0
    /\ g_cursor_y' = 0
    /\ \E r \in SendOutcomes :
         /\ ipc' = send_msg(ipc, PtrMsg16(PTR_LEAVE, 0, 0), r)
         /\ queue' = Tail(queue)
         /\ pc' = AfterSend(r, IF Tail(queue) = << >> THEN ret ELSE "dispatch")
    /\ UNCHANGED << state, ret, revents, wire, inbox, peer_closed, callbacks,
                    fdt, closes, exit_code, fatal, error_tries, nsent, nserial,
                    closed_sent, surfaces, reader_count, lifecycle, adverts,
                    cfg, req, requests, payload, reads >>

\* ptr_leave (lines 271-281)
ptr_leave ==
    /\ pc = "dispatch"
    /\ queue # << >>
    /\ Head(queue).ev = "leave"
    /\ pointer_events' = Append(pointer_events, Head(queue))
    /\ \E r \in SendOutcomes :
         /\ ipc' = send_msg(ipc, PtrMsg16(PTR_LEAVE, 0, 0), r)
         /\ queue' = Tail(queue)
         /\ pc' = AfterSend(r, IF Tail(queue) = << >> THEN ret ELSE "dispatch")
    /\ UNCHANGED << state, ret, revents, wire, inbox, peer_closed, callbacks,
                    fdt, closes, exit_code, fatal, error_tries, nsent, nserial,
                    closed_sent, surfaces, reader_count, lifecycle, adverts,
                    cfg, req, requests, payload, reads,
                    g_cursor_x, g_cursor_y >>

\* ptr_motion (lines 283-295)
ptr_motion ==
    /\ pc = "dispatch"
    /\ queue # << >>
    /\ Head(queue).ev = "motion"
    /\ pointer_events' = Append(pointer_events, Head(queue))
    /\ LET e == Head(queue)
           fx == ToFloat(wl_fixed_to_double(e.x))
           fy == ToFloat(wl_fixed_to_double(e.y))
       IN /\ g_cursor_x' = fx
          /\ g_cursor_y' = fy
          /\ \E r \in SendOutcomes :
               /\ ipc' = send_msg(ipc, PtrMsg16(PTR_MOTION, fx, fy), r)
               /\ queue' = Tail(queue)
               /\ pc' = AfterSend(r, IF Tail(queue) = << >> THEN ret
                                     ELSE "dispatch")
    /\ UNCHANGED << state, ret, revents, wire, inbox, peer_closed, callbacks,
                    fdt, closes, exit_code, fatal, error_tries, nsent, nserial,
                    closed_sent, surfaces, reader_count, lifecycle, adverts,
                    cfg, req, requests, payload, reads >>

\* ptr_button (lines 297-310)
ptr_button ==
    /\ pc = "dispatch"
    /\ queue # << >>
    /\ Head(queue).ev = "button"
    /\ pointer_events' = Append(pointer_events, Head(queue))
    /\ \E r \in SendOutcomes :
         /\ ipc' = send_msg(ipc, PtrMsg20(g_cursor_x, g_cursor_y,
                                          Head(queue).button,
                                          Head(queue).bstate), r)
         /\ queue' = Tail(queue)
         /\ pc' = AfterSend(r, IF Tail(queue) = << >> THEN ret ELSE "dispatch")
    /\ UNCHANGED << state, ret, revents, wire, inbox, peer_closed, callbacks,
                    fdt, closes, exit_code, fatal, error_tries, nsent, nserial,
                    closed_sent, surfaces, reader_count, lifecycle, adverts,
                    cfg, req, requests, payload, reads,
                    g_cursor_x, g_cursor_y >>

\* ptr_axis (lines 312-314)
ptr_axis ==
    /\ pc = "dispatch"
    /\ queue # << >>
    /\ Head(queue).ev = "axis"
    /\ pointer_events' = Append(pointer_events, Head(queue))
    /\ Dispatched
    /\ UNCHANGED << state, ipc, ret, revents, wire, inbox, peer_closed, callbacks,
                    fdt, closes, exit_code, fatal, error_tries, nsent, nserial,
                    closed_sent, surfaces, reader_count, lifecycle, adverts,
                    cfg, req, requests, payload, reads,
                    g_cursor_x, g_cursor_y >>

\* ptr_frame (line 315)
ptr_frame ==
    /\ pc = "dispatch"
    /\ queue # << >>
    /\ Head(queue).ev = "frame"
    /\ pointer_events' = Append(pointer_events, Head(queue))
    /\ Dispatched
    /\ UNCHANGED << state, ipc, ret, revents, wire, inbox, peer_closed, callbacks,
                    fdt, closes, exit_code, fatal, error_tries, nsent, nserial,
                    closed_sent, surfaces, reader_count, lifecycle, adverts,
                    cfg, req, requests, payload, reads,
                    g_cursor_x, g_cursor_y >>

\* ptr_axis_source (line 316)
ptr_axis_source ==
    /\ pc = "dispatch"
    /\ queue # << >>
    /\ Head(queue).ev = "axis_source"
    /\ pointer_events' = Append(pointer_events, Head(queue))
    /\ Dispatched
    /\ UNCHANGED << state, ipc, ret, revents, wire, inbox, peer_closed, callbacks,
                    fdt, closes, exit_code, fatal, error_tries, nsent, nserial,
                    closed_sent, surfaces, reader_count, lifecycle, adverts,
                    cfg, req, requests, payload, reads,
                    g_cursor_x, g_cursor_y >>

\* ptr_axis_stop (line 317)
ptr_axis_stop ==
    /\ pc = "dispatch"
    /\ queue # << >>
    /\ Head(queue).ev = "axis_stop"
    /\ pointer_events' = Append(pointer_events, Head(queue))
    /\ Dispatched
    /\ UNCHANGED << state, ipc, ret, revents, wire, inbox, peer_closed, callbacks,
                    fdt, closes, exit_code, fatal, error_tries, nsent, nserial,
                    closed_sent, surfaces, reader_count, lifecycle, adverts,
                    cfg, req, requests, payload, reads,
                    g_cursor_x, g_cursor_y >>

\* ptr_axis_discrete (line 318)
ptr_axis_discrete ==
    /\ pc = "dispatch"
    /\ queue # << >>
    /\ Head(queue).ev = "axis_discrete"
    /\ pointer_events' = Append(pointer_events, Head(queue))
    /\ Dispatched
    /\ UNCHANGED << state, ipc, ret, revents, wire, inbox, peer_closed, callbacks,
                    fdt, closes, exit_code, fatal, error_tries, nsent, nserial,
                    closed_sent, surfaces, reader_count, lifecycle, adverts,
                    cfg, req, requests, payload, reads,
                    g_cursor_x, g_cursor_y >>

\* every sequence of 1 .. MaxPtrEvents pointer events
PtrQueues ==
    UNION {[1 .. n -> PointerEvents] : n \in 1 .. MaxPtrEvents}

\* the session after start-up (lines 745-804)
StartedSession ==
    Roundtrip([InitState EXCEPT !.shm_fd = main_shm_fd_init, !.sock_fd = 3,
                                !.display = TRUE, !.registry = TRUE,
                                !.running = TRUE],
              FullAdvert,
              << Call("create", "wl_display", "main"),
                 Call("create", "wl_registry", "main") >>)

\* A started session whose wl_display_dispatch_pending finds pointer events
\* in the queue, with a client that holds the socket open or has closed it.
InitPointer ==
    /\ pc = "dispatch"
    /\ state = StartedSession[1]
    /\ queue \in PtrQueues
    /\ ret = "sock"
    /\ revents = [wl |-> TRUE, sock |-> FALSE]
    /\ wire = << >>
    /\ inbox = << >>
    /\ peer_closed \in BOOLEAN
    /\ ipc = << >>
    /\ callbacks = 0
    /\ fdt = [n \in 0 .. 4 |-> IF n < 3 THEN "parent"
                               ELSE IF n = 3 THEN "sock" ELSE "display"]
    /\ closes = << >>
    /\ exit_code = 0 - 1
    /\ fatal = ""
    /\ error_tries = 0
    /\ nsent = 0
    /\ nserial = 0
    /\ closed_sent = FALSE
    /\ surfaces = 0
    /\ reader_count = 0
    /\ lifecycle = StartedSession[2]
    /\ adverts = FullAdvert
    /\ cfg = [anchor |-> 0, width |-> 0, height |-> 0]
    /\ req = << >>
    /\ requests = << >>
    /\ pointer_events = << >>
    /\ payload = NoPayload
    /\ reads = << >>
    /\ g_cursor_x = 0
    /\ g_cursor_y = 0

NextPointer ==
    \/ ptr_enter
    \/ ptr_leave
    \/ ptr_motion
    \/ ptr_button
    \/ ptr_axis
    \/ ptr_frame
    \/ ptr_axis_source
    \/ ptr_axis_stop
    \/ ptr_axis_discrete

SpecPointer == InitPointer /\ [][NextPointer]_vars

(* ---- reading the history ------------------------------------------------ *)
IsTx(m, type) == m.dir = "tx" /\ m.type = type

IsRx(m, type) == m.dir = "rx" /\ m.magic = MAGIC /\ m.type = type

IsFrameDone(m) == IsTx(m, MSG_FRAME_DONE)

IsFrameReady(m) == IsRx(m, MSG_FRAME_READY)

\* a message that starts a blank-frame commit's callback: CFG_ACK or RESIZE
IsBlankCommit(m) == IsTx(m, MSG_CFG_ACK) \/ IsTx(m, MSG_RESIZE)

\* the FRAME_DONE messages written so far, and the FRAME_READY headers read
FrameDones(log) == SelectSeq(log, IsFrameDone)

FrameReadys(log) == SelectSeq(log, IsFrameReady)

Max(S) == CHOOSE x \in S : \A y \in S : y <= x

\* the sequence number of the last FRAME_READY among the first n entries of
\* the log, 0 (frame_seq's initial value) when there is none
LastReadySeq(log, n) ==
    LET R == {i \in 1 .. n : IsFrameReady(log[i])}
    IN IF R = {} THEN 0 ELSE log[Max(R)].seq

SeqsOf(log) == [i \in DOMAIN log |-> log[i].seq]

\* frame callbacks registered and not yet fired by the compositor
Outstanding == callbacks - Count(wire, "done") - Count(queue, "done")

\* the next Wayland event to dispatch is a frame callback's done
AtFrameDone == pc = "dispatch" /\ queue # << >> /\ Head(queue).ev = "done"

\* the header dispatch_jvm_message is about to read has a bad magic
AtBadMagic ==
    pc = "sock" /\ revents.sock /\ inbox # << >> /\ Head(inbox).magic # MAGIC

(* ---- C5 ------------------------------------------------------------------ *)
\* C5: every FRAME_DONE written to the socket comes after a CFG_ACK, and while
\* the client holds the socket open a frame callback exists only once CFG_ACK
\* has been written; this for every order of client messages, FRAME_READY
\* before CONFIGURE included.
C5_CfgAckBeforeFrameDone ==
    /\ \A i \in DOMAIN ipc :
         IsFrameDone(ipc[i]) => \E j \in 1 .. (i - 1) : IsTx(ipc[j], MSG_CFG_ACK)
    /\ (callbacks > 0 /\ ~peer_closed) => \E j \in DOMAIN ipc : IsTx(ipc[j], MSG_CFG_ACK)

\* C5 witness: FRAME_READY was read before any CONFIGURE, and a FRAME_DONE was
\* written later.
C5_Witness ==
    /\ ipc # << >>
    /\ IsFrameReady(ipc[1])
    /\ \E i \in DOMAIN ipc : IsFrameDone(ipc[i])

(* ---- C7 ------------------------------------------------------------------ *)
\* C7: a FRAME_DONE is written only by the step that dispatches a frame
\* callback's done event; that step destroys one callback, clears
\* frame_callback_pending and (the client holding the socket open) writes
\* exactly one FRAME_DONE, which carries the sequence number of the last
\* FRAME_READY read (0 when none was read).
C7_FrameDoneOnlyFromCallback ==
    [][ /\ Len(FrameDones(ipc')) # Len(FrameDones(ipc)) => AtFrameDone
        /\ AtFrameDone =>
             /\ callbacks' = callbacks - 1
             /\ ~state'.frame_callback_pending
             /\ ~peer_closed =>
                  ipc' = Append(ipc, Msg("tx", MAGIC, MSG_FRAME_DONE, 8,
                                         LastReadySeq(ipc, Len(ipc)), 0, 0, 0))
             /\ peer_closed => ipc' = ipc ]_vars

\* C7 witness: a done event has just been answered with the FRAME_DONE of a
\* FRAME_READY whose sequence number is not zero.
C7_Witness ==
    /\ ipc # << >>
    /\ IsFrameDone(Last(ipc))
    /\ Last(ipc).seq = MaxSeq
    /\ callbacks = 0
    /\ ~state.frame_callback_pending

(* ---- C8 ------------------------------------------------------------------ *)
\* C8: every descriptor the helper closes is one it opened itself and still
\* holds (the pixel file, the display connection, the control socket), so no
\* descriptor inherited from the parent, fd 0 included, is ever closed; and
\* from line 757 until an open() succeeds state.shm_fd is -1.
C8_ClosesOnlyOwnDescriptors ==
    /\ \A i \in DOMAIN closes : closes[i] \in {"shm", "display", "sock"}
    /\ \A n \in DOMAIN fdt : (n # 0 /\ n <= 2) => fdt[n] = "parent"
    /\ (/\ pc # "start"
        /\ fatal # "usage"
        /\ \A n \in DOMAIN fdt : fdt[n] # "shm"
        /\ \A i \in DOMAIN closes : closes[i] # "shm") => state.shm_fd = 0 - 1

\* C8 witness: the helper started with stdin closed, so that its socket is
\* descriptor 0; CONFIGURE failed at open(); the helper has torn down.
C8_Witness ==
    /\ pc = "exit"
    /\ fatal = "shm_open"
    /\ state.sock_fd = 0
    /\ closes = << "display", "sock" >>

(* ---- C9 ------------------------------------------------------------------ *)
\* C9: reading a header with a bad magic changes nothing of the helper's
\* state (no handler runs), writes nothing, and ends the loop in that same
\* step; the bad header stays the last entry of the IPC history.
C9_BadMagicEndsLoopSilently ==
    /\ [][ AtBadMagic =>
             /\ pc' = "exit"
             /\ state' = state
             /\ callbacks' = callbacks
             /\ error_tries' = error_tries
             /\ ipc' = Append(ipc, Head(inbox)) ]_vars
    /\ [](\A i \in DOMAIN ipc :
            (ipc[i].dir = "rx" /\ ipc[i].magic # MAGIC) =>
               (i = Len(ipc) /\ pc = "exit" /\ exit_code = 0))

\* C9 witness: a bad header arrived in a configured session with a frame
\* callback outstanding, and the helper has left.
C9_Witness ==
    /\ fatal = "bad_magic"
    /\ pc = "exit"
    /\ callbacks > 0
    /\ \E i \in DOMAIN ipc : IsTx(ipc[i], MSG_CFG_ACK)

(* ---- the frame-pacing claims: C1, C2, C3, C4, C6 ----------------------- *)
\* a configured session in which every registered frame callback has fired
\* and been dispatched, with the client connected and nothing left to read
Settled ==
    /\ callbacks = 0
    /\ ~peer_closed
    /\ pc \notin {"start", "crashed"}
    /\ inbox = << >>
    /\ \E j \in DOMAIN ipc : IsTx(ipc[j], MSG_CFG_ACK)

\* the k-th entry of the log is a well-formed FRAME_READY of the configured
\* session
ReadyInSession(log, k) ==
    /\ IsFrameReady(log[k])
    /\ log[k].len >= 8
    /\ \E j \in 1 .. (k - 1) : IsTx(log[j], MSG_CFG_ACK)

\* the client has sent well-formed FRAME_READYs with strictly increasing
\* sequence numbers
ClientSeqsIncreasing ==
    LET R == FrameReadys(ipc)
    IN /\ \A i \in DOMAIN R : R[i].len >= 8
       /\ \A i, j \in DOMAIN R : i < j => R[i].seq < R[j].seq

C2_Original ==
    Settled =>
      \A i, k \in DOMAIN ipc :
         (/\ i < k
          /\ ReadyInSession(ipc, i)
          /\ ReadyInSession(ipc, k)
          /\ \A m \in (i + 1) .. (k - 1) : ipc[m].dir = "rx") =>
            \E j1, j2 \in (k + 1) .. Len(ipc) :
               /\ j1 < j2
               /\ IsFrameDone(ipc[j1]) /\ ipc[j1].seq = ipc[i].seq
               /\ IsFrameDone(ipc[j2]) /\ ipc[j2].seq = ipc[k].seq

\* C3 as stated: at most one frame callback is registered and not yet fired.
C3_Original == Outstanding <= 1

\* C4 as stated: from the delivery of a configure with new dimensions (which
\* sets resize_pending) until RESIZE is sent (apply_resize clears it), no
\* FRAME_DONE is written.
C4_Original ==
    [][ state.resize_pending =>
          Len(FrameDones(ipc')) = Len(FrameDones(ipc)) ]_vars

\* C6 as stated: when the client's FRAME_READY sequence numbers increase
\* strictly, so do the sequence numbers of the FRAME_DONEs, each being that of
\* the last FRAME_READY read.
C6_Original ==
    ClientSeqsIncreasing =>
      LET D == FrameDones(ipc)
      IN /\ \A i, j \in DOMAIN D : i < j => D[i].seq < D[j].seq
         /\ \A i \in DOMAIN ipc :
              IsFrameDone(ipc[i]) => ipc[i].seq = LastReadySeq(ipc, i - 1)

\* C6 amended: when the client's FRAME_READY sequence numbers increase
\* strictly and are not negative, the sequence numbers of the FRAME_DONEs
\* never decrease (a blank-frame commit's FRAME_DONE repeats the last one),
\* and each is that of the last FRAME_READY read before it, 0 when none.
C6_DoneSeqsNeverDecrease ==
    (ClientSeqsIncreasing /\ \A i \in DOMAIN ipc : IsFrameReady(ipc[i]) => ipc[i].seq >= 0) =>
      LET D == FrameDones(ipc)
      IN /\ \A i, j \in DOMAIN D : i < j => D[i].seq <= D[j].seq
         /\ \A i \in DOMAIN ipc :
              IsFrameDone(ipc[i]) => ipc[i].seq = LastReadySeq(ipc, i - 1)

\* C6 witness: FRAME_DONE for the initial blank frame, for a FRAME_READY, and
\* again with that FRAME_READY's sequence number after a resize.
C6_Witness ==
    /\ ClientSeqsIncreasing
    /\ SeqsOf(FrameDones(ipc)) = << 0, MaxSeq, MaxSeq >>
    /\ \E i \in DOMAIN ipc : IsTx(ipc[i], MSG_RESIZE)

(* ---- C10 ----------------------------------------------------------------- *)
\* the fatal errors C10 lists
FatalErrors ==
    {"socket_read", "bad_magic", "no_display", "no_compositor", "no_shm",
     "no_layer_shell", "shm_open", "shm_buffers", "resize_mmap", "surface",
     "layer_surface", "bad_configure"}

\* C10 as stated: a helper that has left because of a fatal error has called
\* send_error before leaving.
C10_Original ==
    (pc = "exit" /\ fatal \in FatalErrors) => error_tries > 0

(* ---- C11 ----------------------------------------------------------------- *)
\* apply_resize is about to run
AtApplyResize == pc = "top" /\ state.running /\ state.resize_pending

\* C11 as stated: a step that writes to the socket after the client has
\* closed it (frame_callback_done's FRAME_DONE, apply_resize's RESIZE once the
\* new mapping exists) fails to write, and ends the event loop.
C11_Original ==
    [][ (peer_closed /\ (AtFrameDone \/ (AtApplyResize /\ state'.pixels))) =>
           pc' \in {"exit", "crashed"} ]_vars

(* ---- C12 ----------------------------------------------------------------- *)
\* the header dispatch_jvm_message is about to read has a type it does not know
AtUnknownType ==
    /\ pc = "sock" /\ revents.sock /\ inbox # << >>
    /\ Head(inbox).magic = MAGIC
    /\ Head(inbox).type \notin {MSG_CONFIGURE, MSG_FRAME_READY, MSG_SHUTDOWN}

\* C12: reading a message of an unknown type takes the loop to its next
\* iteration, writes nothing, and leaves the whole of `state` (dimensions,
\* configured, frame_callback_pending, resize_pending, frame_seq, the buffer
\* binding, running) and the registered callbacks as they were.
C12_UnknownTypeSkipped ==
    [][ AtUnknownType =>
          /\ pc' = "top"
          /\ state' = state
          /\ callbacks' = callbacks
          /\ ipc' = Append(ipc, Head(inbox))
          /\ fatal' = fatal
          /\ exit_code' = exit_code ]_vars

\* C12 witness: an unknown type was read in a configured session with a frame
\* callback pending, and the helper is back in poll().
C12_Witness ==
    /\ pc = "poll"
    /\ ipc # << >>
    /\ Last(ipc).dir = "rx" /\ Last(ipc).type = MSG_CFG_ACK
    /\ state.configured
    /\ state.frame_callback_pending
    /\ state.pixels

(* ---- C13 ----------------------------------------------------------------- *)
\* C13: once SHUTDOWN has been read it stays the last entry of the IPC
\* history (nothing is read or written after it), running is false, main() is
\* at the loop condition or past the cleanup, and it returns 0 having closed
\* its descriptors; the step after reading SHUTDOWN leaves the loop without
\* touching the Wayland queue, the unread events, the socket or `state`.
C13_ShutdownEndsLoop ==
    /\ [](\A i \in DOMAIN ipc :
            IsRx(ipc[i], MSG_SHUTDOWN) =>
               /\ i = Len(ipc)
               /\ ~state.running
               /\ pc \in {"top", "exit"}
               /\ pc = "exit" => (exit_code = 0 /\ closes # << >>))
    /\ [][ (pc = "top" /\ ipc # << >> /\ IsRx(Last(ipc), MSG_SHUTDOWN)) =>
             /\ pc' = "exit"
             /\ state' = state
             /\ queue' = queue /\ wire' = wire /\ inbox' = inbox
             /\ callbacks' = callbacks ]_vars

\* C13 witness: SHUTDOWN was read while a compositor resize was pending and a
\* frame callback outstanding; the helper has returned 0.
C13_Witness ==
    /\ pc = "exit"
    /\ exit_code = 0
    /\ ipc # << >>
    /\ IsRx(Last(ipc), MSG_SHUTDOWN)
    /\ state.resize_pending
    /\ callbacks > 0

(* ---- C14 ----------------------------------------------------------------- *)
\* layer_surface_closed has run: the closed event was sent and is no longer
\* waiting on the wire or in the event queue
ClosedDispatched ==
    closed_sent /\ Count(wire, "closed") = 0 /\ Count(queue, "closed") = 0

\* the entries a step appends to the IPC history
Appended == SubSeq(ipc', Len(ipc) + 1, Len(ipc'))

\* C14 as stated: once the closed event has been dispatched, running is false
\* and no step of the helper writes an ERROR message, whatever the client has
\* made readable.
C14_Original ==
    /\ [](ClosedDispatched => ~state.running)
    /\ [][ ClosedDispatched =>
             \A i \in DOMAIN Appended : ~IsTx(Appended[i], MSG_ERROR) ]_vars

(* ---- C15 ----------------------------------------------------------------- *)
\* C15: the display's read is prepared exactly while main() is in poll():
\* the count of prepared reads is 1 there and 0 everywhere else, so every
\* prepare_read has been answered by one cancel_read or read_events before a
\* client message is dispatched, before the next prepare_read and before the
\* loop is left, and no read is cancelled that was not prepared.
C15_ReadLockBalanced ==
    reader_count = (IF pc = "poll" THEN 1 ELSE 0)

\* C15 witness: poll() reported only the socket, the prepared read was
\* cancelled, and the client's message is about to be dispatched.
C15_Witness ==
    /\ pc = "sock"
    /\ ~revents.wl /\ revents.sock
    /\ inbox # << >>
    /\ reader_count = 0
    /\ state.configured

(* ---- C16 ----------------------------------------------------------------- *)
\* a frame buffer binding exists: mapping, pool and buffer
Bound == state.pixels /\ state.shm_pool /\ state.buf

\* main() is at a loop-iteration boundary or a handler is about to start
AtBoundaryOrHandlerStart == pc \in {"top", "dispatch", "sock"}

\* C16 as stated: at every loop-iteration boundary and handler start, a
\* binding that exists has frame_bytes and the pool's declared length both
\* equal to width * height * 4.
C16_Original ==
    (Bound /\ AtBoundaryOrHandlerStart) =>
        /\ state.frame_bytes = state.width * state.height * 4
        /\ state.pool_len = state.width * state.height * 4

(* ---- C17 ----------------------------------------------------------------- *)
\* C17 as stated: whenever setup_shm_buffers unmaps the old mapping, the two
\* calls just before the munmap are the destroy of the old buffer and then
\* the destroy of the old pool.
C17_Original ==
    \A i \in DOMAIN lifecycle :
        lifecycle[i] = Call("munmap", "pixels", "setup_shm_buffers") =>
            /\ i > 2
            /\ lifecycle[i - 2] = Call("destroy", "wl_buffer", "setup_shm_buffers")
            /\ lifecycle[i - 1] = Call("destroy", "wl_shm_pool", "setup_shm_buffers")

(* ---- C18 ----------------------------------------------------------------- *)
\* s in reverse
Reverse(s) == [i \in 1 .. Len(s) |-> s[Len(s) + 1 - i]]

\* the kinds of object of a sequence of calls
ObjsOf(log) == [i \in 1 .. Len(log) |-> log[i].obj]

\* the index of the last entry of s equal to x (0 if none)
LastIndexOf(s, x) ==
    IF \E i \in DOMAIN s : s[i] = x
    THEN CHOOSE i \in DOMAIN s : s[i] = x /\ \A j \in DOMAIN s : s[j] = x => j <= i
    ELSE 0

RECURSIVE Live(_, _)
\* the objects alive after the calls of log, in creation order, starting
\* from the live objects acc: a destroy removes the youngest of its kind
Live(log, acc) ==
    IF log = << >> THEN acc
    ELSE LET c == Head(log)
             k == LastIndexOf(acc, c.obj)
         IN Live(Tail(log),
                 IF c.op = "create" THEN Append(acc, c.obj)
                 ELSE IF c.op = "destroy" /\ k > 0
                      THEN SubSeq(acc, 1, k - 1) \o SubSeq(acc, k + 1, Len(acc))
                      ELSE acc)

\* cleanup's destroy calls
IsCleanupDestroy(c) == c.by = "main" /\ c.op = "destroy"

\* C18 as stated: when main() has returned, the code after the loop has
\* destroyed every Wayland object that was alive, in the reverse of the order
\* in which they were created.
C18_Original ==
    pc = "exit" =>
        ObjsOf(SelectSeq(lifecycle, IsCleanupDestroy)) =
            Reverse(Live(SelectSeq(lifecycle, LAMBDA c : ~IsCleanupDestroy(c)), << >>))

(* ---- C19 ----------------------------------------------------------------- *)
\* number of objects of a kind created so far
Creations(obj) ==
    Len(SelectSeq(lifecycle, LAMBDA c : c.op = "create" /\ c.obj = obj))

\* C19 as stated: at most one surface and one layer surface are ever created.
C19_Original ==
    /\ Creations("wl_surface") <= 1
    /\ Creations("zwlr_layer_surface_v1") <= 1

(* ---- C20 ----------------------------------------------------------------- *)
\* the anchor bitmask has the bit of this edge set
Anchored(anchor, edge) == (anchor \div edge) % 2 = 1

\* C20: the size handed to set_size is (0 if LEFT and RIGHT are both
\* anchored, else the client's width; 0 if TOP and BOTTOM are both anchored,
\* else the client's height).
C20_RequestedSize ==
    req # << >> =>
        /\ req[1] = IF Anchored(cfg.anchor, ANCHOR_LEFT) /\ Anchored(cfg.anchor, ANCHOR_RIGHT)
                    THEN 0 ELSE cfg.width
        /\ req[2] = IF Anchored(cfg.anchor, ANCHOR_TOP) /\ Anchored(cfg.anchor, ANCHOR_BOTTOM)
                    THEN 0 ELSE cfg.height

\* C20 witness: anchor LEFT|RIGHT|TOP with w = 50, h = 30 requests (0, 30).
C20_Witness ==
    /\ cfg = [anchor |-> ANCHOR_LEFT + ANCHOR_RIGHT + ANCHOR_TOP, width |-> 50, height |-> 30]
    /\ req = << 0, 30 >>

(* ---- C21 ----------------------------------------------------------------- *)
\* C21 as stated: once the initial compositor configure has been processed,
\* the session's width and height are both strictly positive.
C21_Original ==
    state.configured => (state.width > 0 /\ state.height > 0)

(* ---- C22 ----------------------------------------------------------------- *)
AtLaterConfigure ==
    /\ pc = "dispatch"
    /\ queue # << >>
    /\ Head(queue).ev = "configure"
    /\ state.configured

\* the size a configure event asks for: a zero axis keeps the current size
EffectiveWidth(e) == IF e.width > 0 THEN e.width ELSE state.width
EffectiveHeight(e) == IF e.height > 0 THEN e.height ELSE state.height

ConfigureFailures ==
    {"bad_configure", "shm_open", "surface", "layer_surface", "no_configure",
     "shm_buffers"}

\* a step of handle_configure_msg that fails
ConfigureFails ==
    /\ pc \in {"sock", "cfg2"}
    /\ fatal' # fatal
    /\ fatal' \in ConfigureFailures

\* C23 as stated: a failing CONFIGURE makes one call of send_error, sends no
\* CFG_ACK, registers no frame callback, and ends the loop.
C23_Original ==
    [][ConfigureFails =>
         /\ error_tries' = error_tries + 1
         /\ callbacks' = callbacks
         /\ \A i \in (Len(ipc) + 1) .. Len(ipc') : ~IsTx(ipc'[i], MSG_CFG_ACK)
         /\ pc' \in {"exit", "crashed"}]_vars
(* ---- C24 ----------------------------------------------------------------- *)
\* the last enter or motion among the first n events of a history, 0 if none
LastPosition(h, n) ==
    LET S == {i \in 1 .. n : h[i].ev \in {"enter", "motion"}}
    IN IF S = {} THEN 0 ELSE Max(S)

\* the PTR_EVENT the i-th event of a history has to produce, as a sequence
PtrEventFor(h, i) ==
    LET e == h[i]
        k == LastPosition(h, i - 1)
    IN CASE e.ev = "enter" ->
              << PtrMsg16(PTR_ENTER, ToFloat(e.x), ToFloat(e.y)) >>
         [] e.ev = "motion" ->
              << PtrMsg16(PTR_MOTION, ToFloat(e.x), ToFloat(e.y)) >>
         [] e.ev = "leave" -> << PtrMsg16(PTR_LEAVE, 0, 0) >>
         [] e.ev = "button" ->
              << PtrMsg20(IF k = 0 THEN 0 ELSE ToFloat(h[k].x),
                          IF k = 0 THEN 0 ELSE ToFloat(h[k].y),
                          e.button, e.bstate) >>
         [] OTHER -> << >>

RECURSIVE PtrEventsFor(_, _)
PtrEventsFor(h, n) ==
    IF n = 0 THEN << >> ELSE PtrEventsFor(h, n - 1) \o PtrEventFor(h, n)

\* C24: the PTR_EVENT messages written to an open socket are, in the order
\* of the events delivered, one per enter, motion, leave and button event and
\* none for the other events: enter and motion carry their position, leave
\* carries 0, 0, and a button carries the position of the last enter or
\* motion before it (0, 0 if none), whatever leave events came in between.
C24_PointerMessages ==
    ~peer_closed => ipc = PtrEventsFor(pointer_events, Len(pointer_events))

\* enter or motion, then leave, then a button, all delivered, with another
\* event that produces no message
C24_Witness ==
    /\ ~peer_closed
    /\ Len(pointer_events) = MaxPtrEvents
    /\ pointer_events[1].ev = "motion"
    /\ pointer_events[1].x # ToFloat(pointer_events[1].x)
    /\ pointer_events[2].ev = "leave"
    /\ pointer_events[3].ev = "button"
    /\ Len(ipc) = 3
    /\ ipc[3].x = g_cursor_x
    /\ g_cursor_x # 0
(* ---- C25 ----------------------------------------------------------------- *)
IsAck(q) == q.req = "ack_configure"

\* C25 as stated: the helper never acks an older configure serial after a
\* newer one.
C25_Original ==
    \A i, j \in DOMAIN requests :
        (i < j /\ IsAck(requests[i]) /\ IsAck(requests[j]))
            => requests[i].arg <= requests[j].arg
(* ---- C26 ----------------------------------------------------------------- *)
\* handle_frame_ready is about to run
AtFrameReady ==
    /\ HeaderRead
    /\ Head(inbox).magic = MAGIC
    /\ Head(inbox).type = MSG_FRAME_READY

\* C26 as stated: a FRAME_READY that finds no surface or no buffer, or whose
\* payload is shorter than 8 bytes, makes no attach, frame or commit request,
\* registers no frame callback, and a short payload leaves frame_seq alone.
C26_Original ==
    [][(AtFrameReady
        /\ (state.surface = 0 \/ ~state.buf \/ Head(inbox).len < 8))
       => /\ requests' = requests
          /\ callbacks' = callbacks
          /\ state'.frame_callback_pending = state.frame_callback_pending
          /\ (Head(inbox).len < 8 => state'.frame_seq = state.frame_seq)]_vars
(* ---- C27 ----------------------------------------------------------------- *)
\* termination has been requested and main() is still in the loop
Terminating ==
    /\ ~state.running
    /\ pc \in {"top", "poll", "dispatch", "sock", "cfg2"}

\* a step that calls the listener of a queued Wayland event
DispatchesEvent == pc = "dispatch" /\ queue # << >> /\ queue' = Tail(queue)

\* a step of dispatch_jvm_message that reads a client message
ReadsMessage ==
    /\ Len(ipc') > Len(ipc)
    /\ ipc'[Len(ipc) + 1].dir = "rx"

\* C27 as stated: once running is false, no Wayland event and no client
\* message is dispatched any more.
C27_Original ==
    [][Terminating => (~DispatchesEvent /\ ~ReadsMessage)]_vars
(* ---- C28 ----------------------------------------------------------------- *)
\* the bytes off .. off + n - 1 lie within a payload of len bytes
Within(off, n, len) ==
    \/ n = 0
    \/ /\ Carry32(off, Small(n)) = 0
       /\ ~Less32(len, Add32(off, Small(n)))

\* C28 as stated: a payload that passes the length checks has been read only
\* at offsets below its length.
C28_Original ==
    (reads # << >> /\ Last(reads).op = "accept")
        => \A i \in DOMAIN reads :
               reads[i].op = "copy" => Within(reads[i].off, reads[i].n, payload.len)
====
